---- MODULE Spec2Model ----
(***************************************************************************)
(* reccon: the segmentation engine of src/src/seg.rs.                      *)
(*                                                                         *)
(* Segmentation::accept is modelled as one action.  Its body is the        *)
(* composition of the three sequential `if let` blocks of the source       *)
(* (Quiet -> Pending, Pending -> Active/Quiet, Active -> Active/Quiet)     *)
(* followed by the copy of the chunk into last_chunk.  Chunks and buffers  *)
(* are byte sequences; is_quiet decodes them as 16-bit little-endian       *)
(* samples exactly as the source does.                                     *)
(***************************************************************************)
EXTENDS Integers, Sequences, FiniteSets, TLC

(***************************************************************************)
(* Bounds of the model.                                                    *)
(***************************************************************************)
\* largest max_total_chunks a modelled Config carries
MaxTotal == 4
\* largest min_hot_chunks a modelled Config carries
MaxMinHot == 2
\* largest max_quiet_chunks a modelled Config carries
MaxMaxQuiet == 2
\* number of ids the caller's generator hands out before the run is cut
MaxIds == 2
\* largest number of samples in a slice handed to is_quiet on its own
MaxSamples == 2
\* number of segments being finished at the same time
MaxTasks == 2

(***************************************************************************)
(* Inputs.                                                                 *)
(***************************************************************************)
\* The chunks fed to accept, all of even length (the source produces 16-bit
\* samples): the empty chunk (end of stream), one sample equal to the
\* threshold 1, two hot chunks (samples +2 and -2), a chunk holding the
\* samples 1 and -32768, and a chunk longer than chunk_size.
Chunks ==
    { <<>>, <<1, 0>>, <<2, 0>>, <<254, 255>>, <<1, 0, 0, 128>>,
      <<2, 0, 2, 0, 2, 0>> }

\* Config (seg.rs 14-21): every field is public and unvalidated.
Configs ==
    [ chunk_size       : {4},
      max_total_chunks : 0..MaxTotal,
      min_hot_chunks   : 0..MaxMinHot,
      max_quiet_chunks : 0..MaxMaxQuiet,
      threshold        : {-1, 1} ]

\* The samples of the slices handed to is_quiet on its own, as the two bytes
\* of each: 0, 1, 2, -1, 32767, -32767 and -32768.
SampleBytes ==
    { <<0, 0>>, <<1, 0>>, <<2, 0>>, <<255, 255>>, <<255, 127>>, <<1, 128>>,
      <<0, 128>> }

\* the slices of at most n of those samples
RECURSIVE SlicesUpTo(_)
SlicesUpTo(n) ==
    IF n = 0 THEN {<<>>}
    ELSE LET shorter == SlicesUpTo(n - 1)
         IN  shorter \cup {s \o b : s \in shorter, b \in SampleBytes}

\* thresholds at and around the ends and the middle of the i16 range
Thresholds == {-32768, -1, 0, 1, 2, 32766, 32767}

(***************************************************************************)
(* Byte and sample helpers.                                                *)
(***************************************************************************)
\* i16::from_le_bytes([c0, c1])
from_le_bytes(c0, c1) ==
    LET u == c0 + 256 * c1
    IN  IF u >= 32768 THEN u - 65536 ELSE u

\* i16::abs without overflow checks: -32768 wraps to itself.
wrapping_abs(z) ==
    IF z = -32768 THEN -32768 ELSE IF z < 0 THEN -z ELSE z

\* the samples raw_audio.chunks(2) yields, for an even-length slice
Samples(raw_audio) ==
    { from_le_bytes(raw_audio[2 * i - 1], raw_audio[2 * i]) :
        i \in 1..(Len(raw_audio) \div 2) }

SetMax(S) == CHOOSE m \in S : \A x \in S : x <= m

\* is_quiet (seg.rs 175-184), on a slice it does not panic on
is_quiet(raw_audio, threshold) ==
    LET abs_samples == { wrapping_abs(z) : z \in Samples(raw_audio) }
        max_sample  == IF abs_samples = {} THEN 0 ELSE SetMax(abs_samples)
    IN  max_sample <= threshold

\* z.abs() overflows on -32768; it panics when the build checks overflow
AbsOverflows(raw_audio) == -32768 \in Samples(raw_audio)

(***************************************************************************)
(* State (seg.rs 43-55) and Event (seg.rs 57-62).                          *)
(***************************************************************************)
Quiet == [tag |-> "Quiet"]

Pending(id, total_chunks, consecutive_hot_chunks) ==
    [ tag |-> "Pending", id |-> id, total_chunks |-> total_chunks,
      consecutive_hot_chunks |-> consecutive_hot_chunks ]

Active(total_chunks, consecutive_quiet_chunks) ==
    [ tag |-> "Active", total_chunks |-> total_chunks,
      consecutive_quiet_chunks |-> consecutive_quiet_chunks ]

Start(id) == [type |-> "Start", id |-> id]

Data(bytes) == [type |-> "Data", data |-> bytes]

End == [type |-> "End"]

\* the locals of accept that no field keeps: none before the Active block
NoAcct == [reached |-> FALSE]

(***************************************************************************)
(* Faulty variants of the blocks of accept, each with one plausible slip.  *)
(* A property that speaks of the code fails when the block is replaced by  *)
(* its variant.                                                            *)
(***************************************************************************)
\* QuietBlock that extends pending_buf without clearing it first
QuietBlock_NoClear(e, chunk, quiet, id) ==
    IF e.state.tag = "Quiet" /\ ~quiet
    THEN [ e EXCEPT
             !.invoked = TRUE,
             !.pending_buf = @ \o e.last_chunk,
             !.state = Pending(id, IF e.last_chunk = <<>> THEN 0 ELSE 1, 0) ]
    ELSE e

\* QuietBlock that counts a pre-roll chunk even when there is none
QuietBlock_CountsPreroll(e, chunk, quiet, id) ==
    IF e.state.tag = "Quiet" /\ ~quiet
    THEN [ e EXCEPT
             !.invoked = TRUE,
             !.pending_buf = e.last_chunk,
             !.state = Pending(id, 1, 0) ]
    ELSE e

\* QuietBlock that starts consecutive_hot_chunks at 1, as main.rs does
QuietBlock_HotFromOne(e, chunk, quiet, id) ==
    IF e.state.tag = "Quiet" /\ ~quiet
    THEN [ e EXCEPT
             !.invoked = TRUE,
             !.pending_buf = e.last_chunk,
             !.state = Pending(id, IF e.last_chunk = <<>> THEN 0 ELSE 1, 1) ]
    ELSE e

\* PendingBlock that counts a buffered chunk without buffering it
PendingBlock_DropsChunk(e, chunk, quiet, cfg) ==
    IF e.state.tag # "Pending" THEN e
    ELSE IF quiet THEN [e EXCEPT !.state = Quiet]
    ELSE LET hot == e.state.consecutive_hot_chunks + 1
         IN  IF hot >= cfg.min_hot_chunks
             THEN [ e EXCEPT
                      !.events = @ \o <<Start(e.state.id), Data(e.pending_buf)>>,
                      !.state = Active(e.state.total_chunks, 0) ]
             ELSE [ e EXCEPT
                      !.state = Pending(e.state.id, e.state.total_chunks + 1, hot) ]

\* PendingBlock that keeps a pending burst through a quiet chunk
PendingBlock_NoDiscard(e, chunk, quiet, cfg) ==
    IF e.state.tag # "Pending" THEN e
    ELSE IF quiet THEN e
    ELSE LET hot == e.state.consecutive_hot_chunks + 1
         IN  IF hot >= cfg.min_hot_chunks
             THEN [ e EXCEPT
                      !.events = @ \o <<Start(e.state.id), Data(e.pending_buf)>>,
                      !.state = Active(e.state.total_chunks, 0) ]
             ELSE [ e EXCEPT
                      !.pending_buf = @ \o chunk,
                      !.state = Pending(e.state.id, e.state.total_chunks + 1, hot) ]

\* PendingBlock that promotes with > in place of >=
PendingBlock_PromotesLate(e, chunk, quiet, cfg) ==
    IF e.state.tag # "Pending" THEN e
    ELSE IF quiet THEN [e EXCEPT !.state = Quiet]
    ELSE LET hot == e.state.consecutive_hot_chunks + 1
         IN  IF hot > cfg.min_hot_chunks
             THEN [ e EXCEPT
                      !.events = @ \o <<Start(e.state.id), Data(e.pending_buf)>>,
                      !.state = Active(e.state.total_chunks, 0) ]
             ELSE [ e EXCEPT
                      !.pending_buf = @ \o chunk,
                      !.state = Pending(e.state.id, e.state.total_chunks + 1, hot) ]

\* ActiveBlock that pushes End without leaving Active
ActiveBlock_StaysActive(e, chunk, quiet, cfg) ==
    IF e.state.tag # "Active" THEN e
    ELSE LET total == e.state.total_chunks + 1
             cq    == IF quiet THEN e.state.consecutive_quiet_chunks + 1 ELSE 0
             ended == \/ total >= cfg.max_total_chunks
                      \/ cq >= cfg.max_quiet_chunks
                      \/ chunk = <<>>
         IN  [ e EXCEPT
                 !.events = @ \o <<Data(chunk)>> \o (IF ended THEN <<End>> ELSE <<>>),
                 !.acct = [ reached |-> TRUE, total_chunks |-> total,
                            consecutive_quiet_chunks |-> cq ],
                 !.state = Active(total, cq) ]

\* ActiveBlock that tests the cap with > in place of >=
ActiveBlock_CapStrict(e, chunk, quiet, cfg) ==
    IF e.state.tag # "Active" THEN e
    ELSE LET total == e.state.total_chunks + 1
             cq    == IF quiet THEN e.state.consecutive_quiet_chunks + 1 ELSE 0
             ended == \/ total > cfg.max_total_chunks
                      \/ cq >= cfg.max_quiet_chunks
                      \/ chunk = <<>>
         IN  [ e EXCEPT
                 !.events = @ \o <<Data(chunk)>> \o (IF ended THEN <<End>> ELSE <<>>),
                 !.acct = [ reached |-> TRUE, total_chunks |-> total,
                            consecutive_quiet_chunks |-> cq ],
                 !.state = IF ended THEN Quiet ELSE Active(total, cq) ]

\* ActiveBlock that counts the chunk after the termination test
ActiveBlock_CountsLate(e, chunk, quiet, cfg) ==
    IF e.state.tag # "Active" THEN e
    ELSE LET total == e.state.total_chunks + 1
             cq    == IF quiet THEN e.state.consecutive_quiet_chunks + 1 ELSE 0
             ended == \/ e.state.total_chunks >= cfg.max_total_chunks
                      \/ cq >= cfg.max_quiet_chunks
                      \/ chunk = <<>>
         IN  [ e EXCEPT
                 !.events = @ \o <<Data(chunk)>> \o (IF ended THEN <<End>> ELSE <<>>),
                 !.acct = [ reached |-> TRUE, total_chunks |-> total,
                            consecutive_quiet_chunks |-> cq ],
                 !.state = IF ended THEN Quiet ELSE Active(total, cq) ]

\* ActiveBlock in which a hot chunk leaves consecutive_quiet_chunks alone
ActiveBlock_NoQuietReset(e, chunk, quiet, cfg) ==
    IF e.state.tag # "Active" THEN e
    ELSE LET total == e.state.total_chunks + 1
             cq    == IF quiet THEN e.state.consecutive_quiet_chunks + 1
                               ELSE e.state.consecutive_quiet_chunks
             ended == \/ total >= cfg.max_total_chunks
                      \/ cq >= cfg.max_quiet_chunks
                      \/ chunk = <<>>
         IN  [ e EXCEPT
                 !.events = @ \o <<Data(chunk)>> \o (IF ended THEN <<End>> ELSE <<>>),
                 !.acct = [ reached |-> TRUE, total_chunks |-> total,
                            consecutive_quiet_chunks |-> cq ],
                 !.state = IF ended THEN Quiet ELSE Active(total, cq) ]

\* QuietBlock that draws an id on every chunk it sees while quiet
QuietBlock_EagerId(e, chunk, quiet, id) ==
    IF e.state.tag = "Quiet"
    THEN IF ~quiet
         THEN [ e EXCEPT
                  !.invoked = TRUE,
                  !.pending_buf = e.last_chunk,
                  !.state = Pending(id, IF e.last_chunk = <<>> THEN 0 ELSE 1, 0) ]
         ELSE [e EXCEPT !.invoked = TRUE]
    ELSE e

\* QuietBlock that clears the buffer before it looks at the chunk
QuietBlock_ClearsFirst(e, chunk, quiet, id) ==
    IF e.state.tag = "Quiet"
    THEN IF ~quiet
         THEN [ e EXCEPT
                  !.invoked = TRUE,
                  !.pending_buf = e.last_chunk,
                  !.state = Pending(id, IF e.last_chunk = <<>> THEN 0 ELSE 1, 0) ]
         ELSE [e EXCEPT !.pending_buf = <<>>]
    ELSE e

\* PendingBlock that also emits the promoting chunk itself
PendingBlock_PushesChunk(e, chunk, quiet, cfg) ==
    IF e.state.tag # "Pending" THEN e
    ELSE IF quiet THEN [e EXCEPT !.state = Quiet]
    ELSE LET hot == e.state.consecutive_hot_chunks + 1
         IN  IF hot >= cfg.min_hot_chunks
             THEN [ e EXCEPT
                      !.events = @ \o <<Start(e.state.id), Data(e.pending_buf), Data(chunk)>>,
                      !.state = Active(e.state.total_chunks, 0) ]
             ELSE [ e EXCEPT
                      !.pending_buf = @ \o chunk,
                      !.state = Pending(e.state.id, e.state.total_chunks + 1, hot) ]

\* SaveLastChunk that does not record an empty chunk
SaveLastChunk_SkipsEmpty(e, chunk) ==
    IF chunk = <<>> THEN e ELSE [e EXCEPT !.last_chunk = chunk]

\* ActiveBlock that counts only the hot chunks of a segment
ActiveBlock_CountsHotOnly(e, chunk, quiet, cfg) ==
    IF e.state.tag # "Active" THEN e
    ELSE LET total == IF quiet THEN e.state.total_chunks
                      ELSE e.state.total_chunks + 1
             cq    == IF quiet THEN e.state.consecutive_quiet_chunks + 1 ELSE 0
             ended == \/ total >= cfg.max_total_chunks
                      \/ cq >= cfg.max_quiet_chunks
                      \/ chunk = <<>>
         IN  [ e EXCEPT
                 !.events = @ \o <<Data(chunk)>> \o (IF ended THEN <<End>> ELSE <<>>),
                 !.acct = [ reached |-> TRUE, total_chunks |-> total,
                            consecutive_quiet_chunks |-> cq ],
                 !.state = IF ended THEN Quiet ELSE Active(total, cq) ]

\* PendingBlock that buffers the promoting chunk as well
PendingBlock_BuffersPromoting(e, chunk, quiet, cfg) ==
    IF e.state.tag # "Pending" THEN e
    ELSE IF quiet THEN [e EXCEPT !.state = Quiet]
    ELSE LET hot == e.state.consecutive_hot_chunks + 1
         IN  IF hot >= cfg.min_hot_chunks
             THEN [ e EXCEPT
                      !.events = @ \o <<Start(e.state.id), Data(e.pending_buf)>>,
                      !.pending_buf = @ \o chunk,
                      !.state = Active(e.state.total_chunks, 0) ]
             ELSE [ e EXCEPT
                      !.pending_buf = @ \o chunk,
                      !.state = Pending(e.state.id, e.state.total_chunks + 1, hot) ]

(***************************************************************************)
(* Segmentation::accept, block by block.  `e` is the engine during the     *)
(* call: its fields, the events pushed so far, whether gen_id was invoked, *)
(* and the counters as they stand at the termination test (line 158).      *)
(***************************************************************************)
\* seg.rs 96-108: Quiet and a hot chunk: the burst becomes pending
QuietBlock(e, chunk, quiet, id) ==
    IF e.state.tag = "Quiet" /\ ~quiet
    THEN [ e EXCEPT
             !.invoked = TRUE,
             !.pending_buf = e.last_chunk,
             !.state = Pending(id, IF e.last_chunk = <<>> THEN 0 ELSE 1, 0) ]
    ELSE e

\* seg.rs 111-135: pending: discard, promote, or buffer the chunk
PendingBlock(e, chunk, quiet, cfg) ==
    IF e.state.tag # "Pending" THEN e
    ELSE IF quiet THEN [e EXCEPT !.state = Quiet]
    ELSE LET hot == e.state.consecutive_hot_chunks + 1
         IN  IF hot >= cfg.min_hot_chunks
             THEN [ e EXCEPT
                      !.events = @ \o <<Start(e.state.id), Data(e.pending_buf)>>,
                      !.state = Active(e.state.total_chunks, 0) ]
             ELSE [ e EXCEPT
                      !.pending_buf = @ \o chunk,
                      !.state = Pending(e.state.id, e.state.total_chunks + 1, hot) ]

\* seg.rs 138-166: active: emit the chunk, account, maybe terminate
ActiveBlock(e, chunk, quiet, cfg) ==
    IF e.state.tag # "Active" THEN e
    ELSE LET total == e.state.total_chunks + 1
             cq    == IF quiet THEN e.state.consecutive_quiet_chunks + 1 ELSE 0
             ended == \/ total >= cfg.max_total_chunks
                      \/ cq >= cfg.max_quiet_chunks
                      \/ chunk = <<>>
         IN  [ e EXCEPT
                 !.events = @ \o <<Data(chunk)>> \o (IF ended THEN <<End>> ELSE <<>>),
                 !.acct = [ reached |-> TRUE, total_chunks |-> total,
                            consecutive_quiet_chunks |-> cq ],
                 !.state = IF ended THEN Quiet ELSE Active(total, cq) ]

\* seg.rs 168-169
SaveLastChunk(e, chunk) == [e EXCEPT !.last_chunk = chunk]

\* seg.rs 84-171, for a call that does not panic
AcceptBody(e, chunk, cfg, id) ==
    LET quiet == is_quiet(chunk, cfg.threshold)
        e1 == QuietBlock(e, chunk, quiet, id)
        e2 == PendingBlock(e1, chunk, quiet, cfg)
        e3 == ActiveBlock(e2, chunk, quiet, cfg)
    IN  SaveLastChunk(e3, chunk)

\* seg.rs 85-91: is_quiet runs first (its abs may overflow), then the
\* assertion on the chunk length
AcceptPanics(chunk, cfg, checks) ==
    \/ checks /\ AbsOverflows(chunk)
    \/ Len(chunk) > cfg.chunk_size

(***************************************************************************)
(* What a caller sees of a run: the chunks it passed and the events it got *)
(* back.  These operators fold the returned events the way the tests'      *)
(* test_events does (seg.rs 221-234), and know nothing of the engine.      *)
(***************************************************************************)
HasStart(evs) == \E i \in 1..Len(evs) : evs[i].type = "Start"

HasEnd(evs) == \E i \in 1..Len(evs) : evs[i].type = "End"

CountOf(evs, type) == Cardinality({ i \in 1..Len(evs) : evs[i].type = type })

StartIds(evs) == { evs[i].id : i \in { j \in 1..Len(evs) : evs[j].type = "Start" } }

\* whether a segment is open after the events, given whether one was before
RECURSIVE OpenAfter(_, _)
OpenAfter(o, evs) ==
    IF evs = <<>> THEN o
    ELSE OpenAfter(CASE evs[1].type = "Start" -> TRUE
                     [] evs[1].type = "End"   -> FALSE
                     [] OTHER                 -> o,
                   Tail(evs))

\* Start only when closed, Data and End only when open
RECURSIVE Bracketed(_, _)
Bracketed(o, evs) ==
    IF evs = <<>> THEN TRUE
    ELSE /\ IF evs[1].type = "Start" THEN ~o ELSE o
         /\ Bracketed(OpenAfter(o, <<evs[1]>>), Tail(evs))

\* the Data payloads since the last Start, concatenated
RECURSIVE EmittedAfter(_, _)
EmittedAfter(bytes, evs) ==
    IF evs = <<>> THEN bytes
    ELSE EmittedAfter(CASE evs[1].type = "Start" -> <<>>
                        [] evs[1].type = "Data"  -> bytes \o evs[1].data
                        [] OTHER                 -> bytes,
                      Tail(evs))

RECURSIVE Concat(_)
Concat(chunks) ==
    IF chunks = <<>> THEN <<>> ELSE chunks[1] \o Concat(Tail(chunks))

\* no burst is under way
NoBurst ==
    [ pre |-> <<>>, chunks |-> <<>>, id |-> -1, after_cap_end |-> FALSE,
      pre_emitted |-> FALSE, pre_ended |-> FALSE ]

(***************************************************************************)
(* Variables.                                                              *)
(***************************************************************************)
VARIABLES
    config,          \* Segmentation.config
    overflow_checks, \* whether the build panics on integer overflow
    state,           \* Segmentation.state
    last_chunk,      \* Segmentation.last_chunk
    pending_buf,     \* Segmentation.pending_buf
    ids_count,       \* the caller's id generator (Ids.count in the tests)
    outcome,         \* "ok" or "panic": how the last call ended
    arg,             \* the chunk passed to the last call
    events,          \* the events the last call returned
    id_invoked,      \* whether the last call invoked gen_id
    acct,            \* the counters at the termination test of the last call
    open,            \* history: a Start was returned with no End since
    run,             \* history: hot chunks in a row since the last quiet chunk or End, while no segment is open
    qrun,            \* history: quiet chunks in a row at the end of an open segment
    burst,           \* history: the pre-roll, the chunks and the id of the burst under way
    emitted,         \* history: the Data bytes returned since the last Start
    discarded,       \* history: ids of bursts that went quiet before a Start
    started,         \* history: ids returned in Start events
    from_start,      \* history: every chunk so far was hot and no End was returned
    active_calls,    \* history: calls since, and counting, the one that returned the last Start; 0 once a call finds no segment open and starts none
    q_raw_audio,     \* is_quiet called on its own: the slice
    q_threshold,     \* is_quiet called on its own: the threshold
    q_result,        \* is_quiet called on its own: "none" before the call, then "quiet", "hot" or "panic"
    m_threshold,     \* main: threshold
    m_state,         \* main: state
    m_chunk,         \* main: chunk
    m_pending_buf,   \* main: pending_buf
    m_pc,            \* main: "loop" at the top of an iteration, or how main ended
    m_out,           \* main: what the last iteration did to the encoders
    f_gcs,           \* finish_segment: whether a GCS client is configured
    f_tasks          \* finish_segment: the tasks spawned, one per finished segment

vars ==
    << config, overflow_checks, state, last_chunk, pending_buf, ids_count,
       outcome, arg, events, id_invoked, acct, open, run, qrun, burst,
       emitted, discarded, started, from_start, active_calls, q_raw_audio,
       q_threshold,
       q_result, m_threshold, m_state, m_chunk, m_pending_buf, m_pc, m_out,
       f_gcs, f_tasks >>

engine ==
    << config, state, last_chunk, pending_buf, ids_count, outcome, arg,
       events, id_invoked, acct >>

main_loop == << m_threshold, m_state, m_chunk, m_pending_buf, m_pc, m_out >>

finishing == << f_gcs, f_tasks >>

quiet_call == << q_raw_audio, q_threshold, q_result >>

history ==
    << open, run, qrun, burst, emitted, discarded, started, from_start,
       active_calls >>

IsHot(chunk) == ~is_quiet(chunk, config.threshold)

\* no segment is being finished
FinishIdle == f_gcs = FALSE /\ f_tasks = <<>>

\* an iteration that started no encoder, wrote nothing and finished nothing
NoOut == [spawned |-> FALSE, wrote |-> <<>>, finished |-> FALSE]

\* main() not run
MainIdle ==
    /\ m_threshold = 0
    /\ m_state = Quiet
    /\ m_chunk = <<>>
    /\ m_pending_buf = <<>>
    /\ m_pc = "idle"
    /\ m_out = NoOut

\* Segmentation::new (seg.rs 65-72), any Config, either build
Init ==
    /\ config \in Configs
    /\ overflow_checks \in BOOLEAN
    /\ state = Quiet
    /\ last_chunk = <<>>
    /\ pending_buf = <<>>
    /\ ids_count = 0
    /\ outcome = "ok"
    /\ arg = <<>>
    /\ events = <<>>
    /\ id_invoked = FALSE
    /\ acct = NoAcct
    /\ open = FALSE
    /\ run = 0
    /\ qrun = 0
    /\ burst = NoBurst
    /\ emitted = <<>>
    /\ discarded = {}
    /\ started = {}
    /\ from_start = TRUE
    /\ active_calls = 0
    /\ q_raw_audio = <<>>
    /\ q_threshold = 0
    /\ q_result = "none"
    /\ MainIdle
    /\ FinishIdle

\* the last call ended a segment at the cap on a hot chunk
CapEndHot ==
    /\ HasEnd(events)
    /\ IsHot(arg)
    /\ acct.reached
    /\ acct.total_chunks >= config.max_total_chunks

\* the history variables after a call that returned evs for chunk
Observe(chunk, evs, invoked) ==
    LET hot      == IsHot(chunk)
        waiting  == ~open /\ run > 0
        begins   == ~open /\ run = 0 /\ hot
        opened   == open \/ HasStart(evs)
    IN  /\ open' = OpenAfter(open, evs)
        /\ run' = IF opened \/ ~hot THEN 0 ELSE run + 1
        /\ qrun' = IF opened /\ ~hot THEN qrun + 1 ELSE 0
        /\ burst' = IF begins
                    THEN [ pre |-> arg, chunks |-> <<chunk>>,
                           id |-> IF invoked THEN ids_count ELSE -1,
                           after_cap_end |-> CapEndHot,
                           pre_emitted |-> (acct.reached /\ arg # <<>>),
                           pre_ended |-> HasEnd(events) ]
                    ELSE IF open \/ (waiting /\ hot)
                    THEN [burst EXCEPT !.chunks = Append(@, chunk)]
                    ELSE NoBurst
        /\ emitted' = EmittedAfter(IF open THEN emitted ELSE <<>>, evs)
        /\ discarded' = IF waiting /\ ~hot THEN discarded \cup {burst.id} ELSE discarded
        /\ started' = started \cup StartIds(evs)
        /\ from_start' = (from_start /\ hot /\ ~HasEnd(events))
        /\ active_calls' = IF HasStart(evs) THEN 1
                           ELSE IF open THEN active_calls + 1
                           ELSE 0

\* Segmentation::accept (seg.rs 74-172) with the caller's gen_id
accept(chunk) ==
    /\ outcome = "ok"
    /\ arg' = chunk
    /\ UNCHANGED <<config, overflow_checks>>
    /\ UNCHANGED quiet_call
    /\ UNCHANGED finishing
    /\ UNCHANGED main_loop
    /\ IF AcceptPanics(chunk, config, overflow_checks)
       THEN /\ outcome' = "panic"
            /\ events' = <<>>
            /\ id_invoked' = FALSE
            /\ acct' = NoAcct
            /\ UNCHANGED <<state, last_chunk, pending_buf, ids_count>>
            /\ UNCHANGED history
       ELSE LET e0 == [ state |-> state, last_chunk |-> last_chunk,
                        pending_buf |-> pending_buf, events |-> <<>>,
                        invoked |-> FALSE, acct |-> NoAcct ]
            IN  \E e \in {AcceptBody(e0, chunk, config, ids_count)} :
                /\ e.invoked => ids_count < MaxIds
                /\ outcome' = "ok"
                /\ state' = e.state
                /\ last_chunk' = e.last_chunk
                /\ pending_buf' = e.pending_buf
                /\ events' = e.events
                /\ id_invoked' = e.invoked
                /\ acct' = e.acct
                /\ ids_count' = IF e.invoked THEN ids_count + 1 ELSE ids_count
                /\ Observe(chunk, e.events, e.invoked)

Next == \E chunk \in Chunks : accept(chunk)

Spec == Init /\ [][Next]_vars

(***************************************************************************)
(* is_quiet on its own: one call on any slice with any threshold, in       *)
(* either build.  The engine stands by, constructed and never called.      *)
(***************************************************************************)
InitQuiet ==
    /\ q_raw_audio \in SlicesUpTo(MaxSamples)
    /\ q_threshold \in Thresholds
    /\ q_result = "none"
    /\ overflow_checks \in BOOLEAN
    /\ config = [ chunk_size |-> 2 * MaxSamples, max_total_chunks |-> MaxTotal,
                  min_hot_chunks |-> MaxMinHot, max_quiet_chunks |-> MaxMaxQuiet,
                  threshold |-> q_threshold ]
    /\ state = Quiet
    /\ last_chunk = <<>>
    /\ pending_buf = <<>>
    /\ ids_count = 0
    /\ outcome = "ok"
    /\ arg = <<>>
    /\ events = <<>>
    /\ id_invoked = FALSE
    /\ acct = NoAcct
    /\ open = FALSE
    /\ run = 0
    /\ qrun = 0
    /\ burst = NoBurst
    /\ emitted = <<>>
    /\ discarded = {}
    /\ started = {}
    /\ from_start = TRUE
    /\ active_calls = 0
    /\ MainIdle
    /\ FinishIdle

\* is_quiet(&q_raw_audio, q_threshold) (seg.rs 175-184)
call_is_quiet ==
    /\ q_result = "none"
    /\ q_result' = IF overflow_checks /\ AbsOverflows(q_raw_audio) THEN "panic"
                   ELSE IF is_quiet(q_raw_audio, q_threshold) THEN "quiet"
                   ELSE "hot"
    /\ UNCHANGED << q_raw_audio, q_threshold >>
    /\ UNCHANGED overflow_checks
    /\ UNCHANGED engine
    /\ UNCHANGED history
    /\ UNCHANGED main_loop
    /\ UNCHANGED finishing

NextQuiet == call_is_quiet

SpecQuiet == InitQuiet /\ [][NextQuiet]_vars

(***************************************************************************)
(* main(): the recording loop (main.rs 228-346), one action per iteration. *)
(* The segment id is the wall-clock time as text and the encoder and file  *)
(* names follow from it; none of them steers the loop, and they are left   *)
(* out.  last_chunk is a copy of chunk made at the top of the iteration    *)
(* and read only within it, so it is the chunk of the state before.        *)
(***************************************************************************)
\* main.rs 34
CHUNK_SIZE == 16384

\* duration_to_chunks (main.rs 46-50), of a duration given in milliseconds
duration_to_chunks(ms) ==
    LET SAMPLES_PER_MS == 48
        BYTES_PER_MS   == SAMPLES_PER_MS * 2
    IN  (ms * BYTES_PER_MS) \div CHUNK_SIZE

\* main.rs 35-37
MAX_TOTAL_CHUNKS == duration_to_chunks(60 * 10 * 1000)
MIN_HOT_CHUNKS == duration_to_chunks(1 * 1000)
MAX_QUIET_CHUNKS == duration_to_chunks(5 * 1000)

\* The chunks the pipe yields, cut short to one sample each: the empty chunk
\* (end of input), a sample 1, a sample 2 and a sample -32768.
MainChunks == { <<>>, <<1, 0>>, <<2, 0>>, <<0, 128>> }

\* main.rs 168: a fraction clamped to 0..1, scaled by i16::MAX
MainThresholds == {0, 1}

\* main.rs 12-33, without the id, the encoder and the file names
PendingSegment(consecutive_hot_chunks) ==
    [ tag |-> "Pending", consecutive_hot_chunks |-> consecutive_hot_chunks ]

ActiveSegment(total_chunks, consecutive_quiet_chunks) ==
    [ tag |-> "Active", total_chunks |-> total_chunks,
      consecutive_quiet_chunks |-> consecutive_quiet_chunks ]

\* MainPendingQuiet that leaves the backlog in the buffer
MainPendingQuiet_NoClear(m) == [m EXCEPT !.state = Quiet]

\* main.rs 241-253: a hot chunk while quiet
MainQuietHot(m, last, chunk) ==
    IF m.pending_buf # <<>>
    THEN [m EXCEPT !.pc = "assert_failed"]
    ELSE [ m EXCEPT
             !.pending_buf = last \o chunk,
             !.state = PendingSegment(1) ]

\* main.rs 254-259: a quiet chunk while pending
MainPendingQuiet(m) ==
    [m EXCEPT !.pending_buf = <<>>, !.state = Quiet]

\* main.rs 260-301: a hot chunk while pending; spawned tells whether sox
\* could be started, written whether the encoder took the backlog
MainPendingHot(m, chunk, spawned, written) ==
    LET hot == m.state.consecutive_hot_chunks + 1
        buf == m.pending_buf \o chunk
    IN  IF hot < MIN_HOT_CHUNKS
        THEN [m EXCEPT !.state = PendingSegment(hot), !.pending_buf = buf]
        ELSE IF ~spawned
        THEN [ m EXCEPT
                 !.state = PendingSegment(hot),
                 !.pending_buf = buf,
                 !.pc = "error" ]
        ELSE [ m EXCEPT
                 !.state = ActiveSegment(hot + 1, 0),
                 !.pending_buf = <<>>,
                 !.out = [ spawned |-> TRUE,
                           wrote |-> IF written THEN buf ELSE <<>>,
                           finished |-> FALSE ] ]

\* main.rs 303-345: a chunk while active; written tells whether the encoder
\* took it
MainActive(m, chunk, quiet, written) ==
    LET total == IF written THEN m.state.total_chunks + 1
                 ELSE m.state.total_chunks
        cq    == IF quiet THEN m.state.consecutive_quiet_chunks + 1 ELSE 0
        finished == \/ total >= MAX_TOTAL_CHUNKS
                    \/ cq >= MAX_QUIET_CHUNKS
                    \/ chunk = <<>>
                    \/ ~written
    IN  [ m EXCEPT
            !.state = IF finished THEN Quiet ELSE ActiveSegment(total, cq),
            !.out = [ spawned |-> FALSE,
                      wrote |-> IF written THEN chunk ELSE <<>>,
                      finished |-> finished ],
            !.pc = IF chunk = <<>> THEN "done" ELSE "loop" ]

\* main.rs 237-346: the match on (is_quiet, state) and what follows it
MainBody(m, last, chunk, quiet, spawned, written) ==
    IF m.state.tag = "Active" THEN MainActive(m, chunk, quiet, written)
    ELSE IF m.state.tag = "Quiet"
    THEN IF quiet
         THEN IF chunk = <<>> THEN [m EXCEPT !.pc = "done"] ELSE m
         ELSE MainQuietHot(m, last, chunk)
    ELSE IF quiet THEN MainPendingQuiet(m)
    ELSE MainPendingHot(m, chunk, spawned, written)

\* main.rs 163-227: main() up to the loop, either build
InitMain ==
    /\ m_threshold \in MainThresholds
    /\ m_state = Quiet
    /\ m_chunk = <<>>
    /\ m_pending_buf = <<>>
    /\ m_pc = "loop"
    /\ m_out = NoOut
    /\ FinishIdle
    /\ overflow_checks \in BOOLEAN
    /\ config = [ chunk_size |-> CHUNK_SIZE, max_total_chunks |-> MAX_TOTAL_CHUNKS,
                  min_hot_chunks |-> MIN_HOT_CHUNKS,
                  max_quiet_chunks |-> MAX_QUIET_CHUNKS,
                  threshold |-> m_threshold ]
    /\ state = Quiet
    /\ last_chunk = <<>>
    /\ pending_buf = <<>>
    /\ ids_count = 0
    /\ outcome = "ok"
    /\ arg = <<>>
    /\ events = <<>>
    /\ id_invoked = FALSE
    /\ acct = NoAcct
    /\ open = FALSE
    /\ run = 0
    /\ qrun = 0
    /\ burst = NoBurst
    /\ emitted = <<>>
    /\ discarded = {}
    /\ started = {}
    /\ from_start = TRUE
    /\ active_calls = 0
    /\ q_raw_audio = <<>>
    /\ q_threshold = 0
    /\ q_result = "none"

\* main.rs 229-236 when the read fails: main returns the error
read_fails ==
    /\ m_pc = "loop"
    /\ m_pc' = "error"
    /\ m_out' = NoOut
    /\ UNCHANGED << m_threshold, m_state, m_chunk, m_pending_buf >>
    /\ UNCHANGED overflow_checks
    /\ UNCHANGED engine
    /\ UNCHANGED history
    /\ UNCHANGED quiet_call
    /\ UNCHANGED finishing

\* one iteration of the loop (main.rs 228-346) whose read succeeds:
\* is_quiet may panic, sox may fail to start, the encoder may refuse the
\* chunk
iteration(chunk, spawned, written) ==
    /\ m_pc = "loop"
    /\ Len(chunk) <= CHUNK_SIZE
    /\ m_chunk' = chunk
    /\ UNCHANGED m_threshold
    /\ IF overflow_checks /\ AbsOverflows(chunk)
       THEN m_pc' = "panic" /\ m_out' = NoOut /\ UNCHANGED << m_state, m_pending_buf >>
       ELSE LET m0 == [ state |-> m_state, pending_buf |-> m_pending_buf,
                        pc |-> "loop", out |-> NoOut ]
            IN  \E m \in { MainBody(m0, m_chunk, chunk,
                                    is_quiet(chunk, m_threshold), spawned, written) } :
                /\ m_state' = m.state
                /\ m_pending_buf' = m.pending_buf
                /\ m_pc' = m.pc
                /\ m_out' = m.out
    /\ UNCHANGED overflow_checks
    /\ UNCHANGED engine
    /\ UNCHANGED history
    /\ UNCHANGED quiet_call
    /\ UNCHANGED finishing

\* what this iteration asks of the outside: sox to start when it promotes
\* a burst, the encoder to take the chunk when a segment is active
NextMain ==
    \/ read_fails
    \/ \E chunk \in MainChunks :
         \E spawned \in (IF m_state.tag = "Pending" THEN BOOLEAN ELSE {TRUE}) :
           \E written \in (IF m_state.tag = "Quiet" THEN {TRUE} ELSE BOOLEAN) :
             iteration(chunk, spawned, written)

SpecMain == InitMain /\ [][NextMain]_vars

(***************************************************************************)
(* main()'s loop and the engine side by side: an engine built with main's  *)
(* constants is handed every chunk the loop reads, while every read, every *)
(* start of sox and every write to it succeeds.  The run stops at the      *)
(* first call on which the two differ.                                     *)
(***************************************************************************)
\* the chunks read, one sample each: end of input, a quiet one, a hot one
BothChunks == { <<>>, <<1, 0>>, <<2, 0>> }

\* main started an encoder, wrote to it and finished it on the last chunk
\* exactly as the engine returned Start, Data and End for it
SameBoundaries ==
    /\ m_out.spawned <=> HasStart(events)
    /\ m_out.wrote = EmittedAfter(<<>>, events)
    /\ m_out.finished <=> HasEnd(events)

\* main.rs 163-227 and Segmentation::new (seg.rs 65-72) with main's constants
InitBoth ==
    /\ InitMain
    /\ m_threshold = 1
    /\ ~overflow_checks

\* one chunk through both: Segmentation::accept (seg.rs 74-172), its id
\* generator returning a fixed id, and one iteration of main's loop
\* (main.rs 228-346)
both(chunk) ==
    /\ m_pc = "loop"
    /\ outcome = "ok"
    /\ SameBoundaries
    /\ Len(chunk) <= CHUNK_SIZE
    /\ ~AcceptPanics(chunk, config, overflow_checks)
    /\ arg' = chunk
    /\ m_chunk' = chunk
    /\ LET e0 == [ state |-> state, last_chunk |-> last_chunk,
                   pending_buf |-> pending_buf, events |-> <<>>,
                   invoked |-> FALSE, acct |-> NoAcct ]
           m0 == [ state |-> m_state, pending_buf |-> m_pending_buf,
                   pc |-> "loop", out |-> NoOut ]
       IN  \E e \in {AcceptBody(e0, chunk, config, 0)} :
           \E m \in { MainBody(m0, m_chunk, chunk,
                               is_quiet(chunk, m_threshold), TRUE, TRUE) } :
             /\ state' = e.state
             /\ last_chunk' = e.last_chunk
             /\ pending_buf' = e.pending_buf
             /\ events' = e.events
             /\ id_invoked' = e.invoked
             /\ acct' = e.acct
             /\ m_state' = m.state
             /\ m_pending_buf' = m.pending_buf
             /\ m_pc' = m.pc
             /\ m_out' = m.out
    /\ UNCHANGED << config, overflow_checks, ids_count, outcome, m_threshold >>
    /\ UNCHANGED history
    /\ UNCHANGED quiet_call
    /\ UNCHANGED finishing

NextBoth == \E chunk \in BothChunks : both(chunk)

SpecBoth == InitBoth /\ [][NextBoth]_vars

(***************************************************************************)
(* finish_segment (main.rs 74-102) and upload_segment (main.rs 128-161):   *)
(* one task per finished segment, spawned on the runtime, so the tasks of  *)
(* different segments interleave.  A task's file is under its .part name   *)
(* when the task starts; names lists the names the file has had.           *)
(***************************************************************************)
\* a task as rt.spawn leaves it (main.rs 334-340)
NewTask ==
    [ pc |-> "wait", names |-> <<"part">>, waited |-> FALSE,
      uploading |-> FALSE, put |-> "none" ]

\* put_meta whose failure is not propagated
put_meta_IgnoresError(i, ok) ==
    /\ f_tasks[i].pc = "put_meta"
    /\ f_tasks' = [ f_tasks EXCEPT
                      ![i].put = IF ok THEN "ok" ELSE "failed",
                      ![i].pc = "rename_final" ]
    /\ UNCHANGED f_gcs
    /\ UNCHANGED << overflow_checks, engine, history, quiet_call, main_loop >>

\* main.rs 76-83: the encoder is waited for; however it ended, the task
\* goes on
wait_encoder(i, result) ==
    /\ f_tasks[i].pc = "wait"
    /\ result \in {"success", "unhealthy", "error"}
    /\ f_tasks' = [f_tasks EXCEPT ![i].waited = TRUE, ![i].pc = "rename_local"]
    /\ UNCHANGED f_gcs
    /\ UNCHANGED << overflow_checks, engine, history, quiet_call, main_loop >>

\* main.rs 84-95: .part to .local; on failure the task returns, otherwise
\* it goes on to the upload or, without a client, to the final name
rename_part_local(i, ok) ==
    /\ f_tasks[i].pc = "rename_local"
    /\ f_tasks' = [ f_tasks EXCEPT
                      ![i].names = IF ok THEN Append(@, "local") ELSE @,
                      ![i].pc = IF ~ok THEN "done"
                                ELSE IF f_gcs THEN "upload"
                                ELSE "finalize" ]
    /\ UNCHANGED f_gcs
    /\ UNCHANGED << overflow_checks, engine, history, quiet_call, main_loop >>

\* main.rs 134-150: upload_segment reads the file (and asks soxi, whose
\* failures are only warnings); a failed read ends the upload
upload_read(i, ok) ==
    /\ f_tasks[i].pc = "upload"
    /\ f_tasks' = [ f_tasks EXCEPT
                      ![i].uploading = TRUE,
                      ![i].pc = IF ok THEN "put_meta" ELSE "done" ]
    /\ UNCHANGED f_gcs
    /\ UNCHANGED << overflow_checks, engine, history, quiet_call, main_loop >>

\* main.rs 152-154: put_meta(...).await?
put_meta(i, ok) ==
    /\ f_tasks[i].pc = "put_meta"
    /\ f_tasks' = [ f_tasks EXCEPT
                      ![i].put = IF ok THEN "ok" ELSE "failed",
                      ![i].pc = IF ok THEN "rename_final" ELSE "done" ]
    /\ UNCHANGED f_gcs
    /\ UNCHANGED << overflow_checks, engine, history, quiet_call, main_loop >>

\* main.rs 156-159: .local to the final name, after the upload
rename_after_upload(i, ok) ==
    /\ f_tasks[i].pc = "rename_final"
    /\ f_tasks' = [ f_tasks EXCEPT
                      ![i].names = IF ok THEN Append(@, "final") ELSE @,
                      ![i].pc = "done" ]
    /\ UNCHANGED f_gcs
    /\ UNCHANGED << overflow_checks, engine, history, quiet_call, main_loop >>

\* main.rs 96-101: .local to the final name, without a client
rename_local_final(i, ok) ==
    /\ f_tasks[i].pc = "finalize"
    /\ f_tasks' = [ f_tasks EXCEPT
                      ![i].names = IF ok THEN Append(@, "final") ELSE @,
                      ![i].pc = "done" ]
    /\ UNCHANGED f_gcs
    /\ UNCHANGED << overflow_checks, engine, history, quiet_call, main_loop >>

\* the tasks of MaxTasks finished segments, with or without a GCS client;
\* the loop and the engine stand by
InitFinish ==
    /\ f_gcs \in BOOLEAN
    /\ f_tasks = [i \in 1..MaxTasks |-> NewTask]
    /\ overflow_checks = FALSE
    /\ config = [ chunk_size |-> CHUNK_SIZE, max_total_chunks |-> MAX_TOTAL_CHUNKS,
                  min_hot_chunks |-> MIN_HOT_CHUNKS,
                  max_quiet_chunks |-> MAX_QUIET_CHUNKS, threshold |-> 0 ]
    /\ state = Quiet
    /\ last_chunk = <<>>
    /\ pending_buf = <<>>
    /\ ids_count = 0
    /\ outcome = "ok"
    /\ arg = <<>>
    /\ events = <<>>
    /\ id_invoked = FALSE
    /\ acct = NoAcct
    /\ open = FALSE
    /\ run = 0
    /\ qrun = 0
    /\ burst = NoBurst
    /\ emitted = <<>>
    /\ discarded = {}
    /\ started = {}
    /\ from_start = TRUE
    /\ active_calls = 0
    /\ q_raw_audio = <<>>
    /\ q_threshold = 0
    /\ q_result = "none"
    /\ MainIdle

NextFinish ==
    \E i \in 1..MaxTasks :
        \/ \E result \in {"success", "unhealthy", "error"} : wait_encoder(i, result)
        \/ \E ok \in BOOLEAN : rename_part_local(i, ok)
        \/ \E ok \in BOOLEAN : upload_read(i, ok)
        \/ \E ok \in BOOLEAN : put_meta(i, ok)
        \/ \E ok \in BOOLEAN : rename_after_upload(i, ok)
        \/ \E ok \in BOOLEAN : rename_local_final(i, ok)

SpecFinish == InitFinish /\ [][NextFinish]_vars

(***************************************************************************)
(* Vocabulary of the properties.                                           *)
(***************************************************************************)
\* the Data bytes of one call's events
DataBytes(evs) == EmittedAfter(<<>>, evs)

\* pre-roll (if any) plus the chunks of the burst, as bytes and as a count
BurstBytes == burst.pre \o Concat(burst.chunks)

RunningTotal == (IF burst.pre = <<>> THEN 0 ELSE 1) + Len(burst.chunks)

AllHot == \A i \in 1..Len(burst.chunks) : IsHot(burst.chunks[i])

AllNonEmpty == \A i \in 1..Len(burst.chunks) : burst.chunks[i] # <<>>

\* the number of hot chunks a burst needs in practice
NeededHot == IF config.min_hot_chunks = 0 THEN 1 ELSE config.min_hot_chunks

(***************************************************************************)
(* Properties.                                                             *)
(***************************************************************************)
\* C1: the events returned over a run are well-bracketed: every call's
\* events, read in order from the bracket state the earlier calls left,
\* have Start only while no segment is open and Data and End only while one
\* is open.
ThmC1 == [][Bracketed(open, events')]_vars

\* a segment was started in one call and ended in a later one
WitC1 == HasEnd(events) /\ ~HasStart(events) /\ started # {} /\ ~open

ThmC3 == (open \/ HasEnd(events)) => emitted = BurstBytes

\* a segment with a pre-roll and two further chunks has ended in a call
\* after the one that started it
WitC3 ==
    /\ HasEnd(events)
    /\ ~HasStart(events)
    /\ burst.pre # <<>>
    /\ Len(burst.chunks) >= 2
    /\ burst.chunks[1] # burst.chunks[2]
    /\ emitted = BurstBytes

\* C4: a quiet chunk accepted while Pending returns no events and leaves the
\* state Quiet, and the id of a burst discarded this way is never the id of
\* a Start event.
ThmC4 ==
    /\ [](discarded \cap started = {})
    /\ [][ (state.tag = "Pending" /\ outcome' = "ok" /\ ~IsHot(arg'))
             => /\ events' = <<>>
                /\ state' = Quiet
                /\ ~id_invoked'
                /\ discarded' = discarded \cup {state.id} ]_vars

\* a burst was discarded and a later burst was started
WitC4 == \E d \in discarded : \E s \in started : s > d

\* C5: a call returns at most one End, and returns it exactly when the
\* segment is active in that call and, after the accounting, the total has
\* reached max_total_chunks, or the quiet count max_quiet_chunks, or the
\* chunk is empty; the segment is then closed, so each segment ends on the
\* first such call and only once.
ThmC5 ==
    outcome = "ok" =>
      /\ CountOf(events, "End") <= 1
      /\ acct.reached <=> (open \/ HasEnd(events))
      /\ HasEnd(events) <=>
           /\ acct.reached
           /\ \/ acct.total_chunks >= config.max_total_chunks
              \/ acct.consecutive_quiet_chunks >= config.max_quiet_chunks
              \/ arg = <<>>
      /\ HasEnd(events) => ~open /\ state = Quiet
      /\ open <=> state.tag = "Active"

\* a segment was ended by a non-empty chunk in a call after its Start
WitC5 ==
    /\ outcome = "ok"
    /\ HasEnd(events)
    /\ ~HasStart(events)
    /\ arg # <<>>
    /\ acct.total_chunks >= config.max_total_chunks
    /\ acct.consecutive_quiet_chunks < config.max_quiet_chunks

\* C6 as stated, read on the configurations with a threshold >= 0: Start is
\* returned exactly on the call that delivers the min_hot_chunks-th hot chunk
\* in a row of the burst, first in the events and followed by Data of the
\* pre-roll and the hot chunks so far; earlier calls of the burst return
\* nothing.
CexC6 ==
    config.threshold >= 0 =>
    /\ HasStart(events) =>
         /\ Len(burst.chunks) = config.min_hot_chunks
         /\ events[1] = Start(burst.id)
         /\ DataBytes(events) = BurstBytes
    /\ (outcome = "ok" /\ ~open /\ ~HasEnd(events) /\ burst.chunks # <<>>) =>
         /\ events = <<>>
         /\ Len(burst.chunks) < config.min_hot_chunks

\* C6 amended: the same with max(1, min_hot_chunks) in place of
\* min_hot_chunks: a burst is promoted on its first hot chunk when
\* min_hot_chunks is 0 or 1.
ThmC6 ==
    /\ HasStart(events) =>
         /\ Len(burst.chunks) = NeededHot
         /\ AllHot
         /\ events[1] = Start(burst.id)
         /\ CountOf(events, "Start") = 1
         /\ DataBytes(events) = BurstBytes
    /\ (outcome = "ok" /\ ~open /\ ~HasEnd(events) /\ burst.chunks # <<>>) =>
         /\ events = <<>>
         /\ Len(burst.chunks) < NeededHot

\* a burst with a pre-roll was promoted on its second hot chunk
WitC6 ==
    /\ HasStart(events)
    /\ burst.pre # <<>>
    /\ Len(burst.chunks) = 2
    /\ config.min_hot_chunks = 2

\* C7: while every chunk accepted so far was hot, the burst has no
\* pre-roll, its total_chunks is the number of chunks accepted (it started
\* from 0), no Start is returned before min_hot_chunks chunks, and the Data
\* returned with the Start is those chunks alone.
ThmC7 ==
    (from_start /\ burst.chunks # <<>>) =>
      /\ burst.pre = <<>>
      /\ state.tag = "Pending" => state.total_chunks = Len(burst.chunks)
      /\ acct.reached => acct.total_chunks = Len(burst.chunks)
      /\ Len(burst.chunks) < config.min_hot_chunks => events = <<>>
      /\ HasStart(events) => DataBytes(events) = Concat(burst.chunks)

\* a stream hot from its first chunk was promoted on its second chunk
WitC7 ==
    /\ from_start
    /\ HasStart(events)
    /\ Len(burst.chunks) = 2
    /\ DataBytes(events) = Concat(burst.chunks)

\* C8 as stated, read on the configurations with a threshold >= 0 and
\* positive limits: while only hot chunks are fed after the burst begins, End
\* is returned exactly on the call that brings the running total (pre-roll,
\* if any, plus the chunks of the burst) to max_total_chunks.
CexC8 ==
    (/\ config.threshold >= 0
     /\ config.max_total_chunks >= 1
     /\ config.min_hot_chunks >= 1
     /\ config.max_quiet_chunks >= 1
     /\ outcome = "ok" /\ burst.chunks # <<>> /\ AllHot) =>
      (HasEnd(events) <=> RunningTotal = config.max_total_chunks)

\* C8 amended: while only hot, non-empty chunks are fed after the burst
\* begins and max_quiet_chunks >= 1, End is returned exactly on the first
\* call, at or after promotion, at which the running total is at least
\* max_total_chunks; that is the call bringing the total to max_total_chunks
\* unless the total at promotion already exceeds it.
ThmC8 ==
    (outcome = "ok" /\ burst.chunks # <<>> /\ AllHot /\ AllNonEmpty
       /\ config.max_quiet_chunks >= 1) =>
      /\ HasEnd(events) <=>
           /\ Len(burst.chunks) >= NeededHot
           /\ RunningTotal >= config.max_total_chunks
      /\ (HasEnd(events) /\ ~HasStart(events)) =>
           RunningTotal = config.max_total_chunks
      /\ (HasEnd(events) /\ HasStart(events)) =>
           Len(burst.chunks) = NeededHot

\* a segment fed only hot chunks was ended at the cap, after its promotion
WitC8 ==
    /\ outcome = "ok"
    /\ AllHot
    /\ AllNonEmpty
    /\ config.max_quiet_chunks >= 1
    /\ burst.pre # <<>>
    /\ HasEnd(events)
    /\ ~HasStart(events)
    /\ RunningTotal = config.max_total_chunks

\* C9: with min_hot_chunks >= 2, after a call that ended a segment at the
\* cap on a hot chunk the state is Quiet, the next call with a hot chunk
\* returns no events, and the Start of the burst that follows is returned on
\* its min_hot_chunks-th hot chunk in a row.
ThmC9 ==
    /\ [](CapEndHot => state = Quiet)
    /\ []((burst.after_cap_end /\ config.min_hot_chunks >= 2 /\ HasStart(events))
            => Len(burst.chunks) = config.min_hot_chunks)
    /\ [][ (CapEndHot /\ config.min_hot_chunks >= 2 /\ outcome' = "ok" /\ IsHot(arg'))
             => events' = <<>> ]_vars

\* a segment was started by the burst that followed an End at the cap
WitC9 ==
    /\ burst.after_cap_end
    /\ config.min_hot_chunks >= 2
    /\ HasStart(events)

\* C10 as stated, read on the configurations with a threshold >= 0: in a
\* call in which the segment is active the quiet count is reset by a hot
\* chunk and incremented by a quiet one, and the quiet rule holds only on a
\* call whose chunk is quiet and is the max_quiet_chunks-th of a run of
\* quiet chunks.
CexC10 ==
    (config.threshold >= 0 /\ outcome = "ok" /\ acct.reached) =>
      /\ acct.consecutive_quiet_chunks = qrun
      /\ acct.consecutive_quiet_chunks >= config.max_quiet_chunks =>
           ~IsHot(arg) /\ qrun = config.max_quiet_chunks

\* C10 amended: in every call in which the segment is active, the quiet
\* count after the accounting is 0 for a hot chunk and one more than before
\* for a quiet chunk, so it is the length of the run of quiet chunks ending
\* with this chunk; with max_quiet_chunks >= 1 the quiet rule holds only on
\* a call whose chunk is quiet and is the max_quiet_chunks-th of such a run
\* (with max_quiet_chunks = 0 it holds on every active call).
ThmC10 ==
    /\ []((outcome = "ok" /\ acct.reached) =>
            /\ acct.consecutive_quiet_chunks = qrun
            /\ acct.consecutive_quiet_chunks >= config.max_quiet_chunks =>
                 /\ qrun = config.max_quiet_chunks
                 /\ config.max_quiet_chunks >= 1 => ~IsHot(arg))
    /\ [][ (state.tag = "Active" /\ outcome' = "ok") =>
             /\ acct'.reached
             /\ acct'.consecutive_quiet_chunks =
                  IF IsHot(arg') THEN 0 ELSE state.consecutive_quiet_chunks + 1 ]_vars

\* a segment was ended by its second quiet chunk in a row, below the cap
WitC10 ==
    /\ outcome = "ok"
    /\ HasEnd(events)
    /\ acct.consecutive_quiet_chunks = 2
    /\ config.max_quiet_chunks = 2
    /\ acct.total_chunks < config.max_total_chunks
    /\ arg # <<>>

(***************************************************************************)
(* C11.  Identifier generation.                                            *)
(***************************************************************************)
\* C11: a call that returns invokes gen_id exactly when the engine was
\* Quiet at its start and the chunk is hot, so never from Pending or
\* Active and at most once per burst; the invocation takes the caller's
\* next id, and every Start returned carries the id drawn by the invocation
\* that opened the burst the Start belongs to.
ThmC11 ==
    [][ outcome' = "ok" =>
          /\ id_invoked' <=> (state.tag = "Quiet" /\ ~is_quiet(arg', config.threshold))
          /\ state.tag \in {"Pending", "Active"} => ~id_invoked'
          /\ ids_count' = IF id_invoked' THEN ids_count + 1 ELSE ids_count
          /\ id_invoked' => burst'.id = ids_count
          /\ HasStart(events') =>
               /\ StartIds(events') = {burst'.id}
               /\ burst'.id >= 0
               /\ burst'.id < ids_count' ]_vars

\* a burst whose id was drawn two calls ago is promoted: the Start carries
\* that id although this call drew none
WitC11 ==
    /\ outcome = "ok"
    /\ HasStart(events)
    /\ ~id_invoked
    /\ Len(burst.chunks) = 2
    /\ StartIds(events) = {1}
    /\ burst.id = 1
    /\ ids_count = 2

(***************************************************************************)
(* C12.  End of stream.                                                    *)
(***************************************************************************)
\* C12: after a call that returns with an empty chunk the engine is Quiet,
\* whatever state it was in, and no segment is left open.
CexC12 ==
    (outcome = "ok" /\ arg = <<>>) => (state = Quiet /\ ~open)

CexC14 ==
    LET peak == SetMax({0} \cup { IF z < 0 THEN -z ELSE z : z \in Samples(q_raw_audio) })
    IN  q_result # "none" =>
            q_result = IF peak <= q_threshold THEN "quiet" ELSE "hot"

\* C15: is_quiet classifies the empty slice as quiet for every threshold.
CexC15 ==
    (q_result # "none" /\ q_raw_audio = <<>>) => q_result = "quiet"

(***************************************************************************)
(* C16.  The cap on a segment's chunks.                                    *)
(***************************************************************************)
\* C16 as stated, read on configurations with a threshold of 0 or more and
\* limits of at least 1: no segment holds more than max_total_chunks
\* chunks, the pre-roll and every chunk returned as Data counted.
CexC16 ==
    (/\ config.threshold >= 0
     /\ config.max_total_chunks >= 1
     /\ config.min_hot_chunks >= 1
     /\ config.max_quiet_chunks >= 1
     /\ outcome = "ok"
     /\ open \/ HasEnd(events)) =>
      RunningTotal <= config.max_total_chunks

\* C16 amended: a segment holds at most max_total_chunks chunks or, if that
\* is more, the chunks it holds at promotion (the pre-roll, if any, and the
\* hot chunks promotion needs): the cap is tested only once the segment is
\* Active, so a segment still open after a call is below the cap, and one
\* that exceeds the cap does so at promotion and is ended by that very call.
ThmC16 ==
    (outcome = "ok" /\ (open \/ HasEnd(events))) =>
        LET at_promotion == (IF burst.pre = <<>> THEN 0 ELSE 1) + NeededHot
        IN  /\ open => RunningTotal < config.max_total_chunks
            /\ RunningTotal > config.max_total_chunks =>
                 /\ RunningTotal = at_promotion
                 /\ HasStart(events)
                 /\ HasEnd(events)
            /\ acct.reached /\ acct.total_chunks = RunningTotal

\* a segment of three chunks under a cap of 2: a pre-roll and the two hot
\* chunks promotion needs
WitC16 ==
    /\ outcome = "ok"
    /\ config.threshold >= 0
    /\ config.max_total_chunks = 2
    /\ config.min_hot_chunks = 2
    /\ config.max_quiet_chunks >= 1
    /\ HasStart(events)
    /\ HasEnd(events)
    /\ burst.pre # <<>>
    /\ RunningTotal = 3

(***************************************************************************)
(* C17.  The number of events of a call.                                   *)
(***************************************************************************)
\* C17 as stated, read on configurations with a threshold of 0 or more and
\* limits of at least 1: a call returns at most 3 events.
CexC17 ==
    (/\ config.threshold >= 0
     /\ config.max_total_chunks >= 1
     /\ config.min_hot_chunks >= 1
     /\ config.max_quiet_chunks >= 1) =>
      Len(events) <= 3

\* C17 amended: a call returns at most 4 events; it returns 4 exactly when
\* it both promotes and ends a segment (Start, the backlog, the chunk, End),
\* and at most 2 when it does not promote.
ThmC17 ==
    /\ Len(events) <= 4
    /\ Len(events) = 4 <=> (HasStart(events) /\ HasEnd(events))
    /\ Len(events) = 4 =>
         events = << Start(burst.id), Data(pending_buf), Data(arg), End >>
    /\ ~HasStart(events) => Len(events) <= 2
    /\ outcome = "panic" => events = <<>>

\* a call that returned four events, under limits of at least 1
WitC17 ==
    /\ outcome = "ok"
    /\ Len(events) = 4
    /\ config.threshold >= 0
    /\ config.max_total_chunks >= 1
    /\ config.min_hot_chunks >= 1
    /\ config.max_quiet_chunks >= 1
    /\ arg # <<>>

(***************************************************************************)
(* C18.  last_chunk and the pre-roll.                                      *)
(***************************************************************************)
\* C18: after every call that returns, last_chunk is the chunk passed to
\* it, whichever blocks ran; so when a burst begins (Quiet, hot chunk) the
\* buffer is reseeded with the chunk of the call just before, which is
\* empty only if there was no call before or that call's chunk was empty,
\* followed by the hot chunk itself if the burst stays pending.
ThmC18 ==
    [][ outcome' = "ok" =>
          /\ last_chunk' = arg'
          /\ last_chunk = arg
          /\ (state.tag = "Quiet" /\ ~is_quiet(arg', config.threshold)) =>
               /\ burst'.pre = arg
               /\ pending_buf' =
                    arg \o (IF state'.tag = "Pending" THEN arg' ELSE <<>>) ]_vars

\* a burst just begun after a quiet, non-empty chunk: the buffer holds that
\* chunk and then the hot one
WitC18 ==
    /\ outcome = "ok"
    /\ state.tag = "Pending"
    /\ Len(burst.chunks) = 1
    /\ burst.pre = <<1, 0>>
    /\ arg = <<2, 0>>
    /\ last_chunk = arg
    /\ pending_buf = <<1, 0, 2, 0>>

(***************************************************************************)
(* C19.  The precondition on the chunk length.                             *)
(***************************************************************************)
\* C19: a call with a chunk longer than chunk_size fails (no events, no id
\* drawn), and a call with a chunk of at most chunk_size bytes returns its
\* events without error.
CexC19 ==
    /\ Len(arg) > config.chunk_size =>
         (outcome = "panic" /\ events = <<>> /\ ~id_invoked)
    /\ Len(arg) <= config.chunk_size => outcome = "ok"

(***************************************************************************)
(* C20.  The buffer invariant of main()'s loop.                            *)
(***************************************************************************)
\* C20: at the top of every iteration of main()'s loop pending_buf is
\* non-empty exactly when state is Pending, so the assertion that it is
\* empty, made when a hot chunk arrives in Quiet, never fails.
ThmC20 ==
    /\ m_pc = "loop" => (m_pending_buf # <<>> <=> m_state.tag = "Pending")
    /\ m_pc # "assert_failed"

\* a burst that has made it past its first chunk: the buffer holds the
\* chunk before the burst and the hot chunks since
WitC20 ==
    /\ m_pc = "loop"
    /\ m_threshold = 1
    /\ m_state = PendingSegment(MIN_HOT_CHUNKS - 1)
    /\ Len(m_pending_buf) = 2 * MIN_HOT_CHUNKS
    /\ SubSeq(m_pending_buf, 1, 2) = <<1, 0>>

(***************************************************************************)
(* C21.  A chunk and the segments it is part of.                           *)
(***************************************************************************)
\* C21 as stated, read on configurations with a threshold of 0 or more and
\* limits of at least 1: no chunk is returned in the Data of two segments,
\* so the pre-roll of a segment that starts was not returned as Data by the
\* call before the burst.
CexC21 ==
    (/\ config.threshold >= 0
     /\ config.max_total_chunks >= 1
     /\ config.min_hot_chunks >= 1
     /\ config.max_quiet_chunks >= 1
     /\ outcome = "ok"
     /\ HasStart(events)) =>
      ~burst.pre_emitted

\* C21 amended: a segment's Data are its pre-roll and then the chunks of its
\* own burst, each once; the pre-roll is the only chunk that an earlier
\* segment may have returned too, and it was returned before only as the
\* chunk on which that segment's End came, in the call just before the
\* burst.
ThmC21 ==
    (outcome = "ok" /\ burst # NoBurst) =>
        /\ (open \/ HasEnd(events)) => emitted = burst.pre \o Concat(burst.chunks)
        /\ burst.pre_emitted => (burst.pre_ended /\ burst.pre # <<>>)
        /\ (burst.pre_ended /\ burst.pre # <<>>) => burst.pre_emitted

\* a segment that started with, as its pre-roll, the quiet chunk that ended
\* the segment before it
WitC21 ==
    /\ outcome = "ok"
    /\ config.threshold >= 0
    /\ config.min_hot_chunks >= 1
    /\ config.max_quiet_chunks >= 1
    /\ HasStart(events)
    /\ burst.pre_emitted
    /\ burst.pre = <<1, 0>>
    /\ SubSeq(emitted, 1, 2) = <<1, 0>>

(***************************************************************************)
(* C22.  Bounded response.                                                 *)
(***************************************************************************)
\* C22: with max_total_chunks >= 1, a segment still open after a call was
\* started fewer than max_total_chunks calls ago, the starting call
\* counted: its End comes at the latest on the max_total_chunks-th call
\* from its Start, whatever the chunks, and the engine is Active after
\* fewer than max_total_chunks calls in a row.
ThmC22 ==
    (outcome = "ok" /\ config.max_total_chunks >= 1) =>
        /\ state.tag = "Active" <=> open
        /\ open => (active_calls >= 1 /\ active_calls < config.max_total_chunks)
        /\ active_calls <= config.max_total_chunks
        /\ HasEnd(events) => active_calls >= 1

\* a segment ended on the last call the bound allows, hot to the end: it
\* started without a pre-roll on its first hot chunk and ran to the cap
WitC22 ==
    /\ outcome = "ok"
    /\ config.max_total_chunks = MaxTotal
    /\ config.threshold >= 0
    /\ HasEnd(events)
    /\ active_calls = config.max_total_chunks
    /\ IsHot(arg)

(***************************************************************************)
(* C23.  main()'s loop against the engine.                                 *)
(***************************************************************************)
\* C23: fed the same chunks, with every write succeeding, main starts an
\* encoder on the chunk for which the engine returns Start, writes the
\* bytes the engine returns as Data, and finishes the segment on the chunk
\* for which the engine returns End.
CexC23 == SameBoundaries

(***************************************************************************)
(* C24.  The names of a finished segment's file.                           *)
(***************************************************************************)
\* C24: a segment's file goes from .part to .local to the final name, in
\* that order only; it leaves .part only once the encoder was waited for;
\* the upload is attempted only if that rename succeeded; and with a GCS
\* client it gets the final name only after put_meta returned success, and
\* keeps .local when the upload failed.
ThmC24 ==
    \A i \in 1..Len(f_tasks) :
        LET task == f_tasks[i]
            name == task.names[Len(task.names)]
        IN  /\ task.names \in { <<"part">>, <<"part", "local">>,
                                <<"part", "local", "final">> }
            /\ name # "part" => task.waited
            /\ task.uploading => (f_gcs /\ name # "part")
            /\ (f_gcs /\ name = "final") => task.put = "ok"
            /\ (f_gcs /\ task.pc = "done" /\ name # "part" /\ task.put # "ok") =>
                 name = "local"
            /\ (~f_gcs) => (~task.uploading /\ task.put = "none")

\* with a client, one segment uploaded and under its final name, another
\* whose put_meta failed and which stays under .local
WitC24 ==
    /\ f_gcs
    /\ Len(f_tasks) >= 2
    /\ f_tasks[1].pc = "done"
    /\ f_tasks[1].names = <<"part", "local", "final">>
    /\ f_tasks[1].put = "ok"
    /\ f_tasks[2].pc = "done"
    /\ f_tasks[2].names = <<"part", "local">>
    /\ f_tasks[2].put = "failed"

(***************************************************************************)
(* C25.  The counters between calls.                                       *)
(***************************************************************************)
\* C25: between calls, a Pending engine has counted at least 1 and fewer
\* than min_hot_chunks hot chunks, and its total is that count plus 1 if
\* the burst has a pre-roll chunk; an Active engine has a total below
\* max_total_chunks and a quiet run below max_quiet_chunks.
ThmC25 ==
    /\ state.tag = "Pending" =>
         /\ state.consecutive_hot_chunks >= 1
         /\ state.consecutive_hot_chunks < config.min_hot_chunks
         /\ state.consecutive_hot_chunks = Len(burst.chunks)
         /\ state.total_chunks =
              state.consecutive_hot_chunks + (IF burst.pre = <<>> THEN 0 ELSE 1)
         /\ (burst.pre = <<>>) <=> (Len(pending_buf) = Len(Concat(burst.chunks)))
    /\ state.tag = "Active" =>
         /\ state.total_chunks < config.max_total_chunks
         /\ state.consecutive_quiet_chunks < config.max_quiet_chunks

\* a segment one chunk short of the cap and one quiet chunk short of the
\* quiet limit
WitC25 ==
    /\ outcome = "ok"
    /\ config.max_total_chunks = MaxTotal
    /\ config.max_quiet_chunks = MaxMaxQuiet
    /\ state = Active(MaxTotal - 1, MaxMaxQuiet - 1)
    /\ burst.pre # <<>>

(***************************************************************************)
(* C26.  The buffers and their capacity.                                   *)
(***************************************************************************)
\* C26: with min_hot_chunks >= 1, pending_buf never holds more than
\* min_hot_chunks chunks, so never more than chunk_size * min_hot_chunks
\* bytes, the capacity reserved by Segmentation::new, and last_chunk never
\* holds more than chunk_size bytes.
ThmC26 ==
    config.min_hot_chunks >= 1 =>
        /\ Len(pending_buf) <= config.chunk_size * config.min_hot_chunks
        /\ Len(last_chunk) <= config.chunk_size
        /\ state.tag = "Pending" =>
             /\ pending_buf = burst.pre \o Concat(burst.chunks)
             /\ (IF burst.pre = <<>> THEN 0 ELSE 1) + Len(burst.chunks)
                  <= config.min_hot_chunks

\* the buffer filled to its capacity: a pre-roll and a hot chunk, each of
\* chunk_size bytes, with min_hot_chunks = 2
WitC26 ==
    /\ outcome = "ok"
    /\ config.min_hot_chunks = 2
    /\ state.tag = "Pending"
    /\ burst.pre # <<>>
    /\ Len(pending_buf) = config.chunk_size * config.min_hot_chunks
    /\ Len(last_chunk) = config.chunk_size

=============================================================================
